---- MODULE Spec2Model ----
(***************************************************************************)
(* Model of the transaction categorisation and reconciliation engine of    *)
(* src/app.py: the three persisted collections (transactions, merchant     *)
(* cache, categories), the request handlers that load, mutate and save     *)
(* them, the batch categoriser with its external classifier call, and the  *)
(* aggregation query.                                                      *)
(*                                                                         *)
(* Conventions.  A JSON / Python string is a TLA+ string, except           *)
(* descriptions and merchant names, which are sequences of one-character   *)
(* strings so that the regular expressions of extract_merchant_name can be *)
(* computed.  None is JSON null; a dictionary is a function whose domain is  *)
(* its key set, so a missing key is missing.  Amounts are integers in      *)
(* thousandths of a currency unit.  A date string DD/MM/YYYY is the tuple  *)
(* <<dd, mm, yyyy>>; the formatted date YYYY-MM-DD is <<yyyy, mm, dd>>;    *)
(* string comparison of dates is lexicographic comparison of the tuples.   *)
(***************************************************************************)
EXTENDS Integers, Sequences, FiniteSets, TLC

\* transactions, merchant_cache, categories: the contents of the three JSON
\* files.  lastOp: the last request and what it returned.  taught: for each
\* merchant key, the category code of the latest request that asked for it
\* to be learned (history kept for the properties; no handler reads it).
\* inflight: for each server thread, the request it is in the middle of, with
\* the copy of the transactions that the request loaded.
VARIABLES transactions, merchant_cache, categories, lastOp, taught, inflight

vars == <<transactions, merchant_cache, categories, lastOp, taught, inflight>>

\* ------------------------------------------------------------------------
\* Bounds of the model
\* ------------------------------------------------------------------------

MaxTx == 2

MaxRows == 2

MaxResults == 2

\* ------------------------------------------------------------------------
\* Values
\* ------------------------------------------------------------------------

None == "<None>"

Whitespace == {" ", "\t"}

Digits == {"0", "1", "2", "3", "4", "5", "6", "7", "8", "9"}

UpperChars == <<"A", "B", "C", "D", "E", "F", "G", "H", "I", "J", "K", "L", "M",
                "N", "O", "P", "Q", "R", "S", "T", "U", "V", "W", "X", "Y", "Z">>

LowerChars == <<"a", "b", "c", "d", "e", "f", "g", "h", "i", "j", "k", "l", "m",
                "n", "o", "p", "q", "r", "s", "t", "u", "v", "w", "x", "y", "z">>

IsUpper(c) == \E i \in 1..Len(UpperChars) : UpperChars[i] = c

\* str.lower()
lower(s) ==
    [i \in 1..Len(s) |->
        IF IsUpper(s[i])
        THEN LowerChars[CHOOSE k \in 1..Len(UpperChars) : UpperChars[k] = s[i]]
        ELSE s[i]]

\* str.strip()
strip(s) ==
    LET nonws == {i \in 1..Len(s) : s[i] \notin Whitespace}
    IN  IF nonws = {} THEN <<>>
        ELSE LET first == CHOOSE i \in nonws : \A j \in nonws : i <= j
                 last  == CHOOSE i \in nonws : \A j \in nonws : j <= i
             IN  SubSeq(s, first, last)

\* re.split(r'\s{2,}', desc)[0]: the text before the first run of two or
\* more whitespace characters
SplitFirst(s) ==
    LET runs == {i \in 1..(Len(s) - 1) : s[i] \in Whitespace /\ s[i + 1] \in Whitespace}
    IN  IF runs = {} THEN s
        ELSE SubSeq(s, 1, (CHOOSE i \in runs : \A j \in runs : i <= j) - 1)

\* re.sub(r'\s+<class>{lo,hi}$', '', s): the leftmost position from which a
\* whitespace run followed by lo..hi characters of the class reaches the end
SubTrailing(s, class, lo, hi) ==
    LET n == Len(s)
        starts == {i \in 1..n :
                     \E j \in i..(n - 1) :
                        /\ \A k \in i..j : s[k] \in Whitespace
                        /\ \A k \in (j + 1)..n : s[k] \in class
                        /\ n - j >= lo
                        /\ n - j <= hi}
    IN  IF starts = {} THEN s
        ELSE SubSeq(s, 1, (CHOOSE i \in starts : \A j \in starts : i <= j) - 1)

UpperSet == {UpperChars[i] : i \in 1..Len(UpperChars)}

extract_merchant_name(description) ==
    LET d1 == strip(description)
        d2 == SplitFirst(d1)
        d3 == SubTrailing(d2, Digits, 1, Len(d2))
        d4 == SubTrailing(d3, UpperSet, 2, 3)
    IN  strip(d4)

\* merchant.lower(): the merchant cache key of a description
MerchantKey(description) == lower(extract_merchant_name(description))

\* ------------------------------------------------------------------------
\* The CSV rows of the model
\* ------------------------------------------------------------------------

DescColes12 == <<"C", "O", "L", "E", "S", " ", "1", "2">>

DescColesVic == <<"C", "O", "L", "E", "S", " ", " ", "V", "I", "C">>

DescUber == <<"U", "b", "e", "r">>

Num(mills) == [numeric |-> TRUE, mills |-> mills, grouped |-> FALSE]

\* the same amount written with quotes and a thousands separator
NumGrouped(mills) == [numeric |-> TRUE, mills |-> mills, grouped |-> TRUE]

NotANumber == [numeric |-> FALSE, mills |-> 0, grouped |-> FALSE]

RowColes12 == <<(<<15, 1, 2024>>), Num(-1250), DescColes12>>

RowColes12Grouped == <<(<<15, 1, 2024>>), NumGrouped(-1250), DescColes12>>

RowColesVic == <<(<<3, 2, 2024>>), Num(-752), DescColesVic>>

RowUber == <<(<<15, 1, 2024>>), Num(500), DescUber>>

RowShort == <<(<<15, 1, 2024>>), Num(500)>>

RowNotANumber == <<(<<3, 2, 2024>>), NotANumber, DescUber>>

Rows == {RowColes12, RowColes12Grouped, RowColesVic, RowUber, RowShort, RowNotANumber}

\* MerchantKey of the descriptions the rows can store, computed once
StoredKeys == [d \in {strip(row[3]) : row \in {r \in Rows : Len(r) >= 3}} |-> MerchantKey(d)]

KeyOf(description) ==
    IF description \in DOMAIN StoredKeys THEN StoredKeys[description]
    ELSE MerchantKey(description)

\* ------------------------------------------------------------------------
\* Dictionaries: a Python dict is a function whose domain is its key set
\* ------------------------------------------------------------------------

\* d[k] = v
Put(d, k, v) == [x \in (DOMAIN d) \cup {k} |-> IF x = k THEN v ELSE d[x]]

\* d.get(k, default)
Get(d, k, default) == IF k \in DOMAIN d THEN d[k] ELSE default

\* seq[k] = v
SetAt(seq, k, v) == [i \in 1..Len(seq) |-> IF i = k THEN v ELSE seq[i]]

\* truth value of a string-or-None value (None and '' are falsy)
Truthy(v) == v # None /\ v # ""

Abs(x) == IF x < 0 THEN -x ELSE x

\* string comparison a < b of two dates, as tuples of numbers
DateLess(a, b) ==
    \E i \in 1..Len(a) :
        /\ i <= Len(b)
        /\ \A j \in 1..(i - 1) : a[j] = b[j]
        /\ a[i] < b[i]

\* ------------------------------------------------------------------------
\* categorize_transactions_batch
\* ------------------------------------------------------------------------

\* mutant of UncachedFrom: the cache is not consulted
UncachedFromAll(txs, cache, i) == [k \in 1..(Len(txs) - i + 1) |-> i + k - 1]

\* positions of the batch whose merchant key is not in the cache, in order
RECURSIVE UncachedFrom(_, _, _)
UncachedFrom(txs, cache, i) ==
    IF i > Len(txs) THEN <<>>
    ELSE IF KeyOf(txs[i]["description"]) \in DOMAIN cache
         THEN UncachedFrom(txs, cache, i + 1)
         ELSE <<i>> \o UncachedFrom(txs, cache, i + 1)

\* the cache-hit branch of the partition loop
TagFromCache(t, cache) ==
    LET cached == cache[KeyOf(t["description"])]
    IN  Put(Put(Put(t, "ai_suggested_code", cached["category_code"]),
                "ai_confidence", "high"),
            "ai_from_cache", TRUE)

\* mutant of Fallback: the default code is not written
FallbackWithoutCode(t) == Put(Put(t, "ai_confidence", "low"), "ai_from_cache", FALSE)

\* the except branch: every uncached transaction becomes "other" / low
Fallback(t) ==
    Put(Put(Put(t, "ai_suggested_code", "500"), "ai_confidence", "low"),
        "ai_from_cache", FALSE)

\* the body of the result loop for one response entry
ApplyResult(t, result) ==
    Put(Put(Put(t, "ai_suggested_code", Get(result["fields"], "category_code", "500")),
                "ai_confidence", Get(result["fields"], "confidence", "low")),
            "ai_from_cache", FALSE)

\* for i, result in enumerate(results): entry i goes to the i-th uncached
\* transaction; result.get on an entry that is not an object raises
RECURSIVE ResultLoop(_, _, _, _)
ResultLoop(txs, uncached, results, i) ==
    IF i > Len(results) THEN [raised |-> FALSE, txs |-> txs]
    ELSE IF i <= Len(uncached)
         THEN IF ~results[i]["object"]
              THEN [raised |-> TRUE, txs |-> txs]
              ELSE ResultLoop(SetAt(txs, uncached[i], ApplyResult(txs[uncached[i]], results[i])),
                              uncached, results, i + 1)
         ELSE ResultLoop(txs, uncached, results, i + 1)

\* the rendered transaction list of the prompt
PromptLines(txs, uncached) ==
    [i \in 1..Len(uncached) |->
        [ordinal |-> i,
         date |-> txs[uncached[i]]["date"],
         description |-> txs[uncached[i]]["description"],
         amount |-> Abs(txs[uncached[i]]["amount"]),
         kind |-> IF txs[uncached[i]]["amount"] < 0 THEN "expense" ELSE "income"]]

\* the try block, given what client.messages.create does (outcome)
TryBlock(txs, uncached, outcome) ==
    IF outcome["kind"] = "raise" THEN [raised |-> TRUE, txs |-> txs]
    ELSE IF outcome["kind"] = "no_array" THEN [raised |-> FALSE, txs |-> txs]
    ELSE IF outcome["kind"] = "invalid_json" THEN [raised |-> TRUE, txs |-> txs]
    ELSE ResultLoop(txs, uncached, outcome["results"], 1)

\* position i of the batch is one of the uncached positions
IsUncached(uncached, i) == \E k \in 1..Len(uncached) : uncached[k] = i

\* the batch after the partition loop: cache hits carry their tags
TagHits(txs, cache, uncached) ==
    [i \in 1..Len(txs) |->
        IF IsUncached(uncached, i) THEN txs[i] ELSE TagFromCache(txs[i], cache)]

\* the batch after try/except: when the try block raised, every uncached
\* transaction gets the fallback tags over whatever the loop had written
AfterTry(tried, uncached) ==
    IF tried["raised"]
    THEN [i \in 1..Len(tried["txs"]) |->
             IF IsUncached(uncached, i) THEN Fallback(tried["txs"][i]) ELSE tried["txs"][i]]
    ELSE tried["txs"]

\* the function from the early return on, given the partition
Classify(tagged, cats, uncached, outcome) ==
    IF uncached = <<>>
    THEN [transactions |-> tagged, called |-> FALSE, prompt |-> <<>>]
    ELSE [transactions |-> AfterTry(TryBlock(tagged, uncached, outcome), uncached),
          called |-> TRUE,
          prompt |-> [category_list |->
                         [i \in 1..Len(cats) |->
                             <<cats[i]["code"], cats[i]["name"], cats[i]["category_type"]>>],
                      transaction_list |-> PromptLines(tagged, uncached)]]

Partitioned(txs, cats, cache, outcome, uncached) ==
    Classify(TagHits(txs, cache, uncached), cats, uncached, outcome)

categorize_transactions_batch(txs, cats, cache, outcome) ==
    Partitioned(txs, cats, cache, outcome, UncachedFrom(txs, cache, 1))

\* ------------------------------------------------------------------------
\* upload_csv
\* ------------------------------------------------------------------------

\* datetime.strptime(date_str, '%d/%m/%Y') succeeds
ValidDate(date_str) ==
    /\ date_str[2] \in 1..12
    /\ date_str[1] \in 1..31

\* strftime('%Y-%m-%d') of the parsed date, or the raw string on ValueError
FormatDate(date_str) ==
    IF ValidDate(date_str) THEN <<date_str[3], date_str[2], date_str[1]>> ELSE date_str

\* float(amount_str.replace('"', '').replace(',', '')) raises ValueError
BadAmount(amount_str) == ~amount_str["numeric"]

\* its value otherwise: quotes and thousands separators are dropped
ParseAmount(amount_str) == amount_str["mills"]

CharCodes == UpperChars \o LowerChars \o
             <<"0", "1", "2", "3", "4", "5", "6", "7", "8", "9", " ", "\t">>

CharCode(c) == CHOOSE k \in 1..Len(CharCodes) : CharCodes[k] = c

\* hash(description) % 10000.  The string hash is fixed within one
\* interpreter process; the model covers one process and takes a fixed
\* polynomial of the characters for it.
RECURSIVE PyHash(_)
PyHash(description) ==
    IF description = <<>> THEN 0
    ELSE (31 * PyHash(SubSeq(description, 1, Len(description) - 1))
          + CharCode(description[Len(description)])) % 10000

\* trans_id = f"{date_formatted}_{abs(amount)}_{hash(description) % 10000}"
TransId(row) ==
    <<FormatDate(row[1]), Abs(ParseAmount(row[2])), PyHash(row[3])>>

NewTransaction(row) ==
    [id |-> TransId(row),
     date |-> FormatDate(row[1]),
     amount |-> ParseAmount(row[2]),
     description |-> strip(row[3]),
     category_code |-> None,
     reconciled |-> FALSE]

\* NewTransaction of the rows that parse, computed once
ParsedRows ==
    [row \in {r \in Rows : Len(r) >= 3 /\ ~BadAmount(r[2])} |-> NewTransaction(row)]

Parsed(row) == IF row \in DOMAIN ParsedRows THEN ParsedRows[row] ELSE NewTransaction(row)

\* mutant of NewTransactions: stored ids are not skipped
RECURSIVE NewTransactionsNoDedup(_, _, _)
NewTransactionsNoDedup(csv, existing_ids, i) ==
    IF i > Len(csv) THEN <<>>
    ELSE IF Len(csv[i]) >= 3
         THEN <<Parsed(csv[i])>> \o NewTransactionsNoDedup(csv, existing_ids, i + 1)
         ELSE NewTransactionsNoDedup(csv, existing_ids, i + 1)

\* the row loop: rows with three or more fields whose id is not among the
\* ids that were stored when the request began
RECURSIVE NewTransactions(_, _, _)
NewTransactions(csv, existing_ids, i) ==
    IF i > Len(csv) THEN <<>>
    ELSE IF Len(csv[i]) >= 3 /\ Parsed(csv[i])["id"] \notin existing_ids
         THEN <<Parsed(csv[i])>> \o NewTransactions(csv, existing_ids, i + 1)
         ELSE NewTransactions(csv, existing_ids, i + 1)

\* x placed after the elements of a sorted list whose date is not earlier
InsertByDate(init, x) ==
    SubSeq(init, 1, Cardinality({i \in 1..Len(init) : ~DateLess(init[i]["date"], x["date"])}))
    \o <<x>>
    \o SubSeq(init, Cardinality({i \in 1..Len(init) : ~DateLess(init[i]["date"], x["date"])}) + 1,
              Len(init))

\* transactions.sort(key=lambda x: x['date'], reverse=True): stable
RECURSIVE SortByDateDesc(_)
SortByDateDesc(txs) ==
    IF Len(txs) <= 1 THEN txs
    ELSE InsertByDate(SortByDateDesc(SubSeq(txs, 1, Len(txs) - 1)), txs[Len(txs)])

\* a row with three or more fields whose amount does not parse: the handler
\* leaves through its except clause with status 500 before anything is saved
CsvRaises(csv) == \E i \in 1..Len(csv) : Len(csv[i]) >= 3 /\ BadAmount(csv[i][2])

\* mutant of Imported: only the new transactions are saved
ImportedOnlyNew(txs, batch) ==
    [status |-> 200,
     transactions |-> SortByDateDesc(batch["transactions"]),
     imported |-> Len(batch["transactions"]),
     called |-> batch["called"],
     prompt |-> batch["prompt"],
     batch |-> batch["transactions"]]

\* if new_transactions: categorize, extend, sort and save
Imported(txs, batch) ==
    [status |-> 200,
     transactions |-> SortByDateDesc(txs \o batch["transactions"]),
     imported |-> Len(batch["transactions"]),
     called |-> batch["called"],
     prompt |-> batch["prompt"],
     batch |-> batch["transactions"]]

\* the handler after its row loop
AfterRows(txs, cats, cache, outcome, new_transactions) ==
    IF new_transactions = <<>>
    THEN [status |-> 200, transactions |-> txs, imported |-> 0,
          called |-> FALSE, prompt |-> <<>>, batch |-> <<>>]
    ELSE Imported(txs, categorize_transactions_batch(new_transactions, cats, cache, outcome))

upload_csv(txs, cats, cache, csv, outcome) ==
    IF CsvRaises(csv)
    THEN [status |-> 500, transactions |-> txs, imported |-> 0,
          called |-> FALSE, prompt |-> <<>>, batch |-> <<>>]
    ELSE AfterRows(txs, cats, cache, outcome,
                   NewTransactions(csv, {txs[i]["id"] : i \in 1..Len(txs)}, 1))

\* ------------------------------------------------------------------------
\* Transaction handlers
\* ------------------------------------------------------------------------

\* position of the first stored transaction with this id, 0 if none
\* (for t in transactions: if t['id'] == trans_id: ... break)
FindFirst(txs, trans_id) ==
    LET hits == {i \in 1..Len(txs) : txs[i]["id"] = trans_id}
    IN  IF hits = {} THEN 0 ELSE CHOOSE i \in hits : \A j \in hits : i <= j

\* mutant of Learn: the key is not lower-cased
LearnCaseSensitive(cache, t, category_code, trans_id) ==
    Put(cache, extract_merchant_name(t["description"]),
        [category_code |-> category_code, confidence |-> "high", learned_from |-> trans_id])

\* mutant of Learn: an entry that exists is kept
LearnIfAbsent(cache, t, category_code, trans_id) ==
    IF KeyOf(t["description"]) \in DOMAIN cache THEN cache
    ELSE Put(cache, KeyOf(t["description"]),
             [category_code |-> category_code, confidence |-> "high", learned_from |-> trans_id])

\* merchant_cache[merchant.lower()] = {category_code, confidence: high, learned_from}
Learn(cache, t, category_code, trans_id) ==
    Put(cache, KeyOf(t["description"]),
        [category_code |-> category_code, confidence |-> "high", learned_from |-> trans_id])

\* mutant of ApplyEdit: setting a category also reconciles
ApplyEditReconciling(t, data) ==
    LET t1 == IF "category_code" \in DOMAIN data
              THEN Put(Put(t, "category_code", data["category_code"]), "reconciled", TRUE)
              ELSE t
        t2 == IF "reconciled" \in DOMAIN data
              THEN Put(t1, "reconciled", data["reconciled"]) ELSE t1
    IN  IF "note" \in DOMAIN data THEN Put(t2, "note", data["note"]) ELSE t2

\* the three "if key in data" assignments of api_transaction
ApplyEdit(t, data) ==
    LET t1 == IF "category_code" \in DOMAIN data
              THEN Put(t, "category_code", data["category_code"]) ELSE t
        t2 == IF "reconciled" \in DOMAIN data
              THEN Put(t1, "reconciled", data["reconciled"]) ELSE t1
    IN  IF "note" \in DOMAIN data THEN Put(t2, "note", data["note"]) ELSE t2

\* mutant of EditLearns: the update_cache flag is not looked at
EditLearnsIgnoringFlag(data) == Truthy(Get(data, "category_code", None))

\* data.get('category_code') and data.get('update_cache', True)
EditLearns(data) ==
    /\ Truthy(Get(data, "category_code", None))
    /\ Get(data, "update_cache", TRUE)

api_transaction(txs, cache, trans_id, data) ==
    LET i == FindFirst(txs, trans_id)
    IN  IF i = 0 THEN [transactions |-> txs, merchant_cache |-> cache]
        ELSE [transactions |-> SetAt(txs, i, ApplyEdit(txs[i], data)),
              merchant_cache |->
                  IF EditLearns(data)
                  THEN Learn(cache, txs[i], data["category_code"], trans_id)
                  ELSE cache]

\* if not trans_id or not category_code: return 400
ReconcileRejected(data) ==
    \/ "transaction_id" \notin DOMAIN data
    \/ ~Truthy(Get(data, "category_code", None))

reconcile_transaction(txs, cache, data) ==
    LET i == IF ReconcileRejected(data) THEN 0 ELSE FindFirst(txs, data["transaction_id"])
    IN  IF ReconcileRejected(data)
        THEN [status |-> 400, transactions |-> txs, merchant_cache |-> cache]
        ELSE IF i = 0
        THEN [status |-> 200, transactions |-> txs, merchant_cache |-> cache]
        ELSE [status |-> 200,
              transactions |->
                  SetAt(txs, i, Put(Put(txs[i], "category_code", data["category_code"]),
                                    "reconciled", TRUE)),
              merchant_cache |->
                  Learn(cache, txs[i], data["category_code"], data["transaction_id"])]

\* mutant of AcceptsSuggestion: reconciled transactions are accepted again
AcceptsAnySuggested(t) == Truthy(Get(t, "ai_suggested_code", None))

\* if not t.get('reconciled') and t.get('ai_suggested_code')
AcceptsSuggestion(t) ==
    /\ ~Get(t, "reconciled", FALSE)
    /\ Truthy(Get(t, "ai_suggested_code", None))

\* the loop of reconcile_all from position i on
RECURSIVE ReconcileLoop(_, _, _, _)
ReconcileLoop(txs, cache, count, i) ==
    IF i > Len(txs)
    THEN [transactions |-> txs, merchant_cache |-> cache, reconciled |-> count]
    ELSE IF AcceptsSuggestion(txs[i])
    THEN ReconcileLoop(
             SetAt(txs, i, Put(Put(txs[i], "category_code", txs[i]["ai_suggested_code"]),
                               "reconciled", TRUE)),
             Learn(cache, txs[i], txs[i]["ai_suggested_code"], txs[i]["id"]),
             count + 1, i + 1)
    ELSE ReconcileLoop(txs, cache, count, i + 1)

reconcile_all(txs, cache) == ReconcileLoop(txs, cache, 0, 1)

\* ------------------------------------------------------------------------
\* api_analysis
\* ------------------------------------------------------------------------

Kinds == {"expenses", "income", "all"}

\* mutant of Matches: the reconciled flag is not looked at
MatchesAnyStatus(t, kind) ==
    IF kind = "expenses" THEN t["amount"] < 0
    ELSE IF kind = "income" THEN t["amount"] > 0
    ELSE TRUE

\* the three list comprehensions selected by the type argument
Matches(t, kind) ==
    /\ Get(t, "reconciled", FALSE)
    /\ IF kind = "expenses" THEN t["amount"] < 0
       ELSE IF kind = "income" THEN t["amount"] > 0
       ELSE TRUE

RECURSIVE Filter(_, _)
Filter(txs, kind) ==
    IF txs = <<>> THEN <<>>
    ELSE (IF Matches(txs[1], kind) THEN <<txs[1]>> ELSE <<>>) \o Filter(Tail(txs), kind)

\* code = t.get('category_code', '500')
GroupCode(t) == Get(t, "category_code", "500")

\* the keys of category_totals in insertion order
RECURSIVE FirstSeenCodes(_, _)
FirstSeenCodes(filtered, seen) ==
    IF filtered = <<>> THEN seen
    ELSE FirstSeenCodes(Tail(filtered),
                        IF \E k \in 1..Len(seen) : seen[k] = GroupCode(filtered[1])
                        THEN seen ELSE Append(seen, GroupCode(filtered[1])))

\* category_transactions[code]
RECURSIVE GroupOf(_, _)
GroupOf(filtered, code) ==
    IF filtered = <<>> THEN <<>>
    ELSE (IF GroupCode(filtered[1]) = code THEN <<filtered[1]>> ELSE <<>>)
         \o GroupOf(Tail(filtered), code)

\* category_totals[code]
RECURSIVE SumAbs(_)
SumAbs(txs) == IF txs = <<>> THEN 0 ELSE Abs(txs[1]["amount"]) + SumAbs(Tail(txs))

\* round(total, 2) of a total in thousandths: the nearest hundredth, a tie
\* going to the even hundredth
Round2(mills) ==
    LET q == mills \div 10
        r == mills % 10
    IN  IF r < 5 THEN 10 * q
        ELSE IF r > 5 THEN 10 * (q + 1)
        ELSE IF q % 2 = 0 THEN 10 * q ELSE 10 * (q + 1)

\* mutant of InsertByTotal: x goes before the items with the same total
InsertBeforeEqual(init, x) ==
    SubSeq(init, 1, Cardinality({i \in 1..Len(init) : init[i][2] > x[2]}))
    \o <<x>>
    \o SubSeq(init, Cardinality({i \in 1..Len(init) : init[i][2] > x[2]}) + 1, Len(init))

\* x placed after the items of a sorted list whose total is not smaller
InsertByTotal(init, x) ==
    SubSeq(init, 1, Cardinality({i \in 1..Len(init) : init[i][2] >= x[2]}))
    \o <<x>>
    \o SubSeq(init, Cardinality({i \in 1..Len(init) : init[i][2] >= x[2]}) + 1, Len(init))

\* sorted(category_totals.items(), key=lambda x: x[1], reverse=True): stable
RECURSIVE SortByTotalDesc(_)
SortByTotalDesc(items) ==
    IF Len(items) <= 1 THEN items
    ELSE InsertByTotal(SortByTotalDesc(SubSeq(items, 1, Len(items) - 1)), items[Len(items)])

\* category_map.get(code, {'name': 'Unknown', 'type': 'variable'}); in the
\* dict comprehension the last category with a code wins
CategoryFor(cats, code) ==
    LET hits == {i \in 1..Len(cats) : cats[i]["code"] = code}
    IN  IF hits = {} THEN [name |-> "Unknown", type |-> "variable"]
        ELSE cats[CHOOSE i \in hits : \A j \in hits : j <= i]

\* category_totals.items()
Items(filtered, codes) ==
    [k \in 1..Len(codes) |-> <<codes[k], SumAbs(GroupOf(filtered, codes[k]))>>]

\* the result list built from the sorted items
Results(filtered, cats, sorted) ==
    [k \in 1..Len(sorted) |->
        [code |-> sorted[k][1],
         name |-> CategoryFor(cats, sorted[k][1])["name"],
         type |-> CategoryFor(cats, sorted[k][1])["type"],
         total |-> Round2(sorted[k][2]),
         transactions |-> GroupOf(filtered, sorted[k][1])]]

\* the handler after the filter
Analyse(filtered, cats) ==
    Results(filtered, cats, SortByTotalDesc(Items(filtered, FirstSeenCodes(filtered, <<>>))))

api_analysis(txs, cats, kind) == Analyse(Filter(txs, kind), cats)

\* ------------------------------------------------------------------------
\* api_categories (POST)
\* ------------------------------------------------------------------------

\* mutant of DuplicateCode: only a category with the same name is a duplicate
DuplicateCodeAndName(cats, data) ==
    \E i \in 1..Len(cats) : cats[i]["code"] = data["code"] /\ cats[i]["name"] = data["name"]

DuplicateCode(cats, data) == \E i \in 1..Len(cats) : cats[i]["code"] = data["code"]

api_categories_post(cats, data) ==
    IF DuplicateCode(cats, data)
    THEN [status |-> 400, categories |-> cats]
    ELSE [status |-> 200,
          categories |-> Append(cats,
              [code |-> data["code"],
               name |-> data["name"],
               type |-> Get(data, "type", "variable"),
               category_type |-> Get(data, "category_type", "Expense")])]

\* ------------------------------------------------------------------------
\* api_category (PUT, DELETE)
\* ------------------------------------------------------------------------

\* categories = [c for c in categories if c['code'] != code]
RECURSIVE WithoutCode(_, _)
WithoutCode(cats, code) ==
    IF cats = <<>> THEN <<>>
    ELSE (IF cats[1]["code"] # code THEN <<cats[1]>> ELSE <<>>) \o WithoutCode(Tail(cats), code)

api_category_delete(cats, code) == WithoutCode(cats, code)

\* the three data.get(key, c[key]) assignments
UpdateCategory(c, data) ==
    [code |-> c["code"],
     name |-> Get(data, "name", c["name"]),
     type |-> Get(data, "type", c["type"]),
     category_type |-> Get(data, "category_type", c["category_type"])]

\* position of the first category with this code, 0 if none
FirstCategory(cats, code) ==
    IF \A i \in 1..Len(cats) : cats[i]["code"] # code THEN 0
    ELSE CHOOSE i \in 1..Len(cats) :
            cats[i]["code"] = code /\ \A j \in 1..(i - 1) : cats[j]["code"] # code

\* the update of the first category at position i (none when i = 0)
UpdateAt(cats, i, data) ==
    IF i = 0 THEN cats ELSE SetAt(cats, i, UpdateCategory(cats[i], data))

api_category_put(cats, code, data) == UpdateAt(cats, FirstCategory(cats, code), data)

\* ------------------------------------------------------------------------
\* Requests the model sends
\* ------------------------------------------------------------------------

RECURSIVE SeqsUpTo(_, _)
SeqsUpTo(S, n) ==
    IF n = 0 THEN {<<>>}
    ELSE LET shorter == SeqsUpTo(S, n - 1)
         IN  shorter \cup {Append(q, x) : q \in {p \in shorter : Len(p) = n - 1}, x \in S}

CSVs == SeqsUpTo(Rows, MaxRows)

Obj(fields) == [object |-> TRUE, fields |-> fields]

\* a JSON value that is not an object, such as a number
NonObject == [object |-> FALSE, fields |-> <<>>]

Entry100 == Obj([id |-> 1, category_code |-> "100", confidence |-> "medium"])

Entry200 == Obj([id |-> 2, category_code |-> "200", confidence |-> "high"])

EntryEmptyCode == Obj([id |-> 1, category_code |-> ""])

EntryNoFields == Obj(<<>>)

Entries == {Entry100, Entry200, EntryEmptyCode, EntryNoFields, NonObject}

Array(results) == [kind |-> "array", results |-> results]

Raise == [kind |-> "raise"]

NoArray == [kind |-> "no_array"]

InvalidJson == [kind |-> "invalid_json"]

Outcomes ==
    {Raise, NoArray, InvalidJson} \cup {Array(r) : r \in SeqsUpTo(Entries, MaxResults)}

\* the classifier is not reached
NoOutcome == [kind |-> "none"]

StoredIds == {transactions[i]["id"] : i \in 1..Len(transactions)}

UnknownId == <<(<<1, 1, 1>>), 0, 0>>

\* ------------------------------------------------------------------------
\* State machine: one action per request handler
\* ------------------------------------------------------------------------

\* the threads of the development server (app.run serves each request in
\* its own thread)
Threads == {"t1", "t2"}

\* a thread that is serving no request
Idle == [pc |-> "idle"]

\* load_json of files that do not exist yet
Init ==
    /\ transactions = <<>>
    /\ merchant_cache = <<>>
    /\ categories = <<>>
    /\ lastOp = [op |-> "start"]
    /\ taught = <<>>
    /\ inflight = [th \in Threads |-> Idle]

\* the rows of a CSV that would be stored
Adds(csv) ==
    IF CsvRaises(csv) THEN <<>>
    ELSE NewTransactions(csv, StoredIds, 1)

\* what the classifier can answer, when the request reaches it
Answers(csv, outcomes) ==
    IF UncachedFrom(Adds(csv), merchant_cache, 1) = <<>> THEN {NoOutcome} ELSE outcomes

UploadCsv(csv, outcomes) ==
    /\ Len(transactions) + Len(Adds(csv)) <= MaxTx
    /\ \E outcome \in Answers(csv, outcomes) :
          \E r \in {upload_csv(transactions, categories, merchant_cache, csv, outcome)} :
              /\ transactions' = r["transactions"]
              /\ lastOp' = [op |-> "upload_csv", outcome |-> outcome,
                            rows |-> Cardinality({i \in 1..Len(csv) : Len(csv[i]) >= 3}),
                            status |-> r["status"], imported |-> r["imported"],
                            called |-> r["called"], prompt |-> r["prompt"],
                            batch |-> r["batch"]]
    /\ UNCHANGED <<merchant_cache, categories, taught, inflight>>

ApiTransaction(trans_id, data) ==
    \E r \in {api_transaction(transactions, merchant_cache, trans_id, data)},
       i \in {FindFirst(transactions, trans_id)} :
        /\ transactions' = r["transactions"]
        /\ merchant_cache' = r["merchant_cache"]
        /\ lastOp' = [op |-> "api_transaction", trans_id |-> trans_id, data |-> data]
        /\ taught' = IF /\ i # 0
                        /\ "category_code" \in DOMAIN data
                        /\ data["category_code"] \notin {None, ""}
                        /\ ("update_cache" \in DOMAIN data => data["update_cache"])
                     THEN Put(taught, KeyOf(transactions[i]["description"]),
                              data["category_code"])
                     ELSE taught
        /\ UNCHANGED <<categories, inflight>>

ReconcileTransaction(data) ==
    \E r \in {reconcile_transaction(transactions, merchant_cache, data)},
       i \in {IF ReconcileRejected(data) THEN 0
              ELSE FindFirst(transactions, data["transaction_id"])} :
        /\ transactions' = r["transactions"]
        /\ merchant_cache' = r["merchant_cache"]
        /\ lastOp' = [op |-> "reconcile_transaction", data |-> data, status |-> r["status"]]
        /\ taught' = IF i # 0
                     THEN Put(taught, KeyOf(transactions[i]["description"]),
                              data["category_code"])
                     ELSE taught
        /\ UNCHANGED <<categories, inflight>>

\* the positions of the transactions that a request has just reconciled
Moved(after) ==
    {i \in 1..Len(transactions) : ~transactions[i]["reconciled"] /\ after[i]["reconciled"]}

\* their merchant keys
MovedKeys(after) == {KeyOf(transactions[i]["description"]) : i \in Moved(after)}

\* the last of them, in stored order, with merchant key k
LastMoved(after, k) ==
    CHOOSE i \in Moved(after) :
        /\ KeyOf(transactions[i]["description"]) = k
        /\ \A j \in Moved(after) : KeyOf(transactions[j]["description"]) = k => j <= i

ReconcileAll ==
    \E r \in {reconcile_all(transactions, merchant_cache)} :
        /\ transactions' = r["transactions"]
        /\ merchant_cache' = r["merchant_cache"]
        /\ lastOp' = [op |-> "reconcile_all", reconciled |-> r["reconciled"]]
        /\ taught' = [k \in (DOMAIN taught) \cup MovedKeys(r["transactions"]) |->
                         IF k \in MovedKeys(r["transactions"])
                         THEN transactions[LastMoved(r["transactions"], k)]["ai_suggested_code"]
                         ELSE taught[k]]
        /\ UNCHANGED <<categories, inflight>>

ApiAnalysis(kind) ==
    /\ lastOp' = [op |-> "api_analysis", kind |-> kind,
                  result |-> api_analysis(transactions, categories, kind)]
    /\ UNCHANGED <<transactions, merchant_cache, categories, taught, inflight>>

ApiCategoriesPost(data) ==
    \E r \in {api_categories_post(categories, data)} :
        /\ categories' = r["categories"]
        /\ lastOp' = [op |-> "api_categories", data |-> data, status |-> r["status"]]
        /\ UNCHANGED <<transactions, merchant_cache, taught, inflight>>

ApiCategoryPut(code, data) ==
    /\ categories' = api_category_put(categories, code, data)
    /\ lastOp' = [op |-> "api_category_put", code |-> code, data |-> data]
    /\ UNCHANGED <<transactions, merchant_cache, taught, inflight>>

ApiCategoryDelete(code) ==
    /\ categories' = api_category_delete(categories, code)
    /\ lastOp' = [op |-> "api_category_delete", code |-> code]
    /\ UNCHANGED <<transactions, merchant_cache, taught, inflight>>

\* mutant of ClearTransactions: the merchant cache is cleared as well
ClearTransactionsAndCache ==
    /\ transactions' = <<>>
    /\ merchant_cache' = <<>>
    /\ lastOp' = [op |-> "clear_transactions"]
    /\ UNCHANGED <<categories, taught, inflight>>

ClearTransactions ==
    /\ transactions' = <<>>
    /\ lastOp' = [op |-> "clear_transactions"]
    /\ UNCHANGED <<merchant_cache, categories, taught, inflight>>

ClearData ==
    /\ transactions' = <<>>
    /\ merchant_cache' = <<>>
    /\ lastOp' = [op |-> "clear_data"]
    /\ taught' = <<>>
    /\ UNCHANGED <<categories, inflight>>

\* ------------------------------------------------------------------------
\* The reconciliation workflow: imports, edits, reconciles and clears
\* ------------------------------------------------------------------------

WorkflowOutcomes == {NoArray, Array(<<Entry100, EntryEmptyCode>>)}

EditBodies == { [reconciled |-> FALSE], [category_code |-> "100"] }

ReconcileBodies ==
    { [transaction_id |-> i, category_code |-> "200"] : i \in StoredIds \cup {UnknownId} }
    \cup { [transaction_id |-> UnknownId], [category_code |-> "200"] }

Next ==
    \/ \E csv \in CSVs : UploadCsv(csv, WorkflowOutcomes)
    \/ \E trans_id \in StoredIds \cup {UnknownId}, data \in EditBodies :
          ApiTransaction(trans_id, data)
    \/ \E data \in ReconcileBodies : ReconcileTransaction(data)
    \/ ReconcileAll
    \/ ClearTransactions
    \/ ClearData

Spec == Init /\ [][Next]_vars

\* ------------------------------------------------------------------------
\* Properties of the reconciliation workflow
\* ------------------------------------------------------------------------

\* how many stored transactions with this id are reconciled
ReconciledCount(txs, id) ==
    Cardinality({i \in 1..Len(txs) : txs[i]["id"] = id /\ txs[i]["reconciled"]})

\* C1 (as claimed): reconciliation is monotone.  In no step does a
\* transaction that stays in the store go from reconciled back to
\* unreconciled: for every id that is stored before and after the step, the
\* number of reconciled transactions with that id does not decrease.
C1_ReconciledStaysReconciled ==
    [][\A id \in StoredIds :
          id \in StoredIds' =>
             ReconciledCount(transactions', id) >= ReconciledCount(transactions, id)]_vars

\* the prompt of the last import has a line for a description with this key
AskedAbout(key) ==
    /\ lastOp["called"]
    /\ \E k \in 1..Len(lastOp["prompt"]["transaction_list"]) :
          MerchantKey(lastOp["prompt"]["transaction_list"][k]["description"]) = key

\* C5: learning convergence.  After an import, every transaction it added
\* whose merchant key M has been taught by a reconcile operation since the
\* last clear-all-data carries ai_from_cache = true and the most recently
\* taught code for M, and the classifier was not asked about it.
C5_LearnedCodeIsUsedOnImport ==
    lastOp["op"] = "upload_csv" =>
        \A i \in 1..Len(lastOp["batch"]) :
            LET t == lastOp["batch"][i]
                M == MerchantKey(t["description"])
            IN  M \in DOMAIN taught =>
                   /\ "ai_from_cache" \in DOMAIN t
                   /\ t["ai_from_cache"] = TRUE
                   /\ t["ai_suggested_code"] = taught[M]
                   /\ ~AskedAbout(M)

\* an import has added a transaction whose key was taught by the reconcile
\* of another stored transaction, which is still reconciled with that code
C5_Witness ==
    /\ lastOp["op"] = "upload_csv"
    /\ \E i \in 1..Len(lastOp["batch"]) :
          LET t == lastOp["batch"][i]
              M == MerchantKey(t["description"])
          IN  /\ M \in DOMAIN taught
              /\ t["ai_suggested_code"] = "200"
              /\ \E j \in 1..Len(transactions) :
                    /\ transactions[j]["id"] # t["id"]
                    /\ MerchantKey(transactions[j]["description"]) = M
                    /\ transactions[j]["reconciled"]
                    /\ transactions[j]["category_code"] = "200"

\* the transaction t with category_code c and reconciled = true, every other
\* field as it was
Settled(t, after, c) ==
    /\ DOMAIN after = DOMAIN t
    /\ after["category_code"] = c
    /\ after["reconciled"] = TRUE
    /\ \A f \in (DOMAIN t) \ {"category_code", "reconciled"} : after[f] = t[f]

HighEntry(c, id) == [category_code |-> c, confidence |-> "high", learned_from |-> id]

\* what reconcile-all must do when the transactions in `eligible` are the
\* ones it accepts
ReconcileAllDoes(eligible) ==
    /\ Len(transactions') = Len(transactions)
    /\ \A i \in 1..Len(transactions) :
          IF i \in eligible
          THEN Settled(transactions[i], transactions'[i], transactions[i]["ai_suggested_code"])
          ELSE transactions'[i] = transactions[i]
    /\ lastOp'["reconciled"] =
          Cardinality({i \in 1..Len(transactions) :
                          ~transactions[i]["reconciled"] /\ transactions'[i]["reconciled"]})
    /\ LET keys == {MerchantKey(transactions[i]["description"]) : i \in eligible}
       IN  /\ DOMAIN merchant_cache' = (DOMAIN merchant_cache) \cup keys
           /\ \A k \in (DOMAIN merchant_cache) \ keys : merchant_cache'[k] = merchant_cache[k]
           /\ \A i \in eligible :
                 (\A j \in eligible :
                     MerchantKey(transactions[j]["description"])
                        = MerchantKey(transactions[i]["description"]) => j <= i)
                 => merchant_cache'[MerchantKey(transactions[i]["description"])]
                       = HighEntry(transactions[i]["ai_suggested_code"], transactions[i]["id"])

\* C7 (as claimed): reconcile-all accepts the suggestion of every
\* unreconciled transaction whose ai_suggested_code is not null, learns it,
\* leaves every other transaction unchanged and returns the number moved.
C7_AcceptsEveryNonNullSuggestion ==
    [][lastOp'["op"] = "reconcile_all" =>
          ReconcileAllDoes({i \in 1..Len(transactions) :
                               /\ ~transactions[i]["reconciled"]
                               /\ "ai_suggested_code" \in DOMAIN transactions[i]
                               /\ transactions[i]["ai_suggested_code"] # None})]_vars

\* C7 (amended): reconcile-all accepts the suggestion of every unreconciled
\* transaction whose ai_suggested_code is neither null nor the empty string:
\* category_code becomes the suggestion, reconciled becomes true, and the
\* cache entry of the merchant key is that of the last such transaction in
\* stored order (code, high, its id); every other transaction and every
\* other cache entry is unchanged; the count returned is the number moved.
C7_AcceptsEveryNonEmptySuggestion ==
    [][lastOp'["op"] = "reconcile_all" =>
          ReconcileAllDoes({i \in 1..Len(transactions) :
                               /\ ~transactions[i]["reconciled"]
                               /\ "ai_suggested_code" \in DOMAIN transactions[i]
                               /\ transactions[i]["ai_suggested_code"] \notin {None, ""}})]_vars

\* reconcile-all has just moved two transactions of one merchant key whose
\* suggestions differ, and left alone one without a suggestion to accept
C7_Witness ==
    /\ lastOp["op"] = "reconcile_all"
    /\ lastOp["reconciled"] = 2
    /\ Len(transactions) = 2
    /\ MerchantKey(transactions[1]["description"]) = MerchantKey(transactions[2]["description"])
    /\ transactions[1]["category_code"] # transactions[2]["category_code"]
    /\ merchant_cache[MerchantKey(transactions[2]["description"])]["learned_from"]
          = transactions[2]["id"]

\* C8: single reconcile.  A reconcile request with the id of a stored
\* transaction and a non-empty code c leaves the first stored transaction
\* with that id with category_code = c and reconciled = true, its other
\* fields and every other transaction unchanged, and sets the cache entry of
\* its merchant key to (c, high, that id), whatever the entry was before;
\* no other cache entry changes.
C8_SingleReconcile ==
    [][(/\ lastOp'["op"] = "reconcile_transaction"
        /\ "transaction_id" \in DOMAIN lastOp'["data"]
        /\ "category_code" \in DOMAIN lastOp'["data"]
        /\ lastOp'["data"]["category_code"] \notin {None, ""}
        /\ lastOp'["data"]["transaction_id"] \in StoredIds)
       =>
       LET id == lastOp'["data"]["transaction_id"]
           c == lastOp'["data"]["category_code"]
           i == CHOOSE i \in 1..Len(transactions) :
                   /\ transactions[i]["id"] = id
                   /\ \A j \in 1..(i - 1) : transactions[j]["id"] # id
           M == MerchantKey(transactions[i]["description"])
       IN  /\ Len(transactions') = Len(transactions)
           /\ Settled(transactions[i], transactions'[i], c)
           /\ \A j \in 1..Len(transactions) : j # i => transactions'[j] = transactions[j]
           /\ DOMAIN merchant_cache' = (DOMAIN merchant_cache) \cup {M}
           /\ merchant_cache'[M] = HighEntry(c, id)
           /\ \A k \in (DOMAIN merchant_cache) \ {M} : merchant_cache'[k] = merchant_cache[k]]_vars

\* a reconcile has just replaced the entry that another transaction of the
\* same merchant taught with a different code, next to an entry of another
\* merchant
C8_Witness ==
    /\ lastOp["op"] = "reconcile_transaction"
    /\ lastOp["status"] = 200
    /\ lastOp["data"]["transaction_id"] \in StoredIds
    /\ Cardinality(DOMAIN merchant_cache) = 2
    /\ \E i \in 1..Len(transactions), j \in 1..Len(transactions) :
          /\ transactions[i]["id"] = lastOp["data"]["transaction_id"]
          /\ transactions[j]["id"] # transactions[i]["id"]
          /\ MerchantKey(transactions[j]["description"])
                = MerchantKey(transactions[i]["description"])
          /\ transactions[j]["reconciled"]
          /\ transactions[j]["category_code"] \notin {None, lastOp["data"]["category_code"]}
          /\ merchant_cache[MerchantKey(transactions[i]["description"])]
                = HighEntry(lastOp["data"]["category_code"], transactions[i]["id"])

\* ------------------------------------------------------------------------
\* Imports on their own: uploads, reconcile-all and clear-transactions
\* ------------------------------------------------------------------------

NextImport ==
    \/ \E csv \in CSVs : UploadCsv(csv, WorkflowOutcomes)
    \/ ReconcileAll
    \/ ClearTransactions

SpecImport == Init /\ [][NextImport]_vars

\* C6: idempotent import.  From every reachable store and for every CSV,
\* importing the CSV and then importing it again leaves the store exactly
\* as the first import left it, and the second import reports zero added.
C6_SecondImportIsNoOp ==
    \A csv \in CSVs : \A o1 \in WorkflowOutcomes, o2 \in WorkflowOutcomes :
        LET once == upload_csv(transactions, categories, merchant_cache, csv, o1)
            twice == upload_csv(once["transactions"], categories, merchant_cache, csv, o2)
        IN  /\ twice["transactions"] = once["transactions"]
            /\ twice["imported"] = 0

\* an import of rows that were all stored already, over a store that holds
\* a reconciled transaction
C6_Witness ==
    /\ lastOp["op"] = "upload_csv"
    /\ lastOp["status"] = 200
    /\ lastOp["rows"] > 0
    /\ lastOp["imported"] = 0
    /\ \E i \in 1..Len(transactions) :
          transactions[i]["reconciled"] /\ transactions[i]["category_code"] # None

\* ------------------------------------------------------------------------
\* The batch categoriser on its own: imports against a cache that earlier
\* reconciles have filled, with every classifier outcome
\* ------------------------------------------------------------------------

HighEntry200 ==
    [category_code |-> "200", confidence |-> "high", learned_from |-> Parsed(RowColes12)["id"]]

HighEntry100 ==
    [category_code |-> "100", confidence |-> "high", learned_from |-> Parsed(RowUber)["id"]]

CategorizeCaches ==
    { <<>>,
      [k \in {MerchantKey(DescColes12)} |-> HighEntry200],
      [k \in {MerchantKey(DescUber)} |-> HighEntry100] }

InitCategorize ==
    /\ transactions = <<>>
    /\ merchant_cache \in CategorizeCaches
    /\ categories = <<>>
    /\ lastOp = [op |-> "start"]
    /\ taught = [k \in DOMAIN merchant_cache |-> merchant_cache[k]["category_code"]]
    /\ inflight = [th \in Threads |-> Idle]

NextCategorize ==
    \/ \E csv \in CSVs : UploadCsv(csv, Outcomes)
    \/ ClearTransactions

SpecCategorize == InitCategorize /\ [][NextCategorize]_vars

\* the transaction carries exactly these three ai_* values
Tagged(t, code, confidence, from_cache) ==
    /\ {"ai_suggested_code", "ai_confidence", "ai_from_cache"} \subseteq DOMAIN t
    /\ t["ai_suggested_code"] = code
    /\ t["ai_confidence"] = confidence
    /\ t["ai_from_cache"] = from_cache

IsHit(t) == MerchantKey(t["description"]) \in DOMAIN merchant_cache

\* C2: cache-first.  After an import, every transaction of its batch whose
\* merchant key is in the cache is tagged (cached code, high, from cache)
\* and has no line in the classifier request; when the whole batch is cache
\* hits the classifier is not called.
C2_CacheFirst ==
    lastOp["op"] = "upload_csv" =>
        /\ \A i \in 1..Len(lastOp["batch"]) :
              LET t == lastOp["batch"][i]
              IN  IsHit(t) =>
                     /\ Tagged(t, merchant_cache[MerchantKey(t["description"])]["category_code"],
                               "high", TRUE)
                     /\ ~AskedAbout(MerchantKey(t["description"]))
        /\ (\A i \in 1..Len(lastOp["batch"]) : IsHit(lastOp["batch"][i])) => ~lastOp["called"]

\* an import whose batch mixes a cache hit and a miss that went to the
\* classifier
C2_Witness ==
    /\ lastOp["op"] = "upload_csv"
    /\ lastOp["called"]
    /\ Len(lastOp["prompt"]["transaction_list"]) = 1
    /\ \E i \in 1..Len(lastOp["batch"]), j \in 1..Len(lastOp["batch"]) :
          IsHit(lastOp["batch"][i]) /\ ~IsHit(lastOp["batch"][j])

\* C3: all-or-nothing fallback.  After an import whose classifier call
\* raised, every cache-miss transaction of the batch is tagged ("500", low,
\* not from cache).
C3_FailedCallFallsBack ==
    (lastOp["op"] = "upload_csv" /\ lastOp["outcome"] = Raise) =>
        \A i \in 1..Len(lastOp["batch"]) :
            ~IsHit(lastOp["batch"][i]) => Tagged(lastOp["batch"][i], "500", "low", FALSE)

\* the classifier call raised for a batch of two misses
C3_Witness ==
    /\ lastOp["op"] = "upload_csv"
    /\ lastOp["outcome"] = Raise
    /\ Len(lastOp["batch"]) = 2
    /\ \A i \in 1..2 : ~IsHit(lastOp["batch"][i])

\* the response text cannot be parsed as the structured list
Unparseable(outcome) ==
    \/ outcome["kind"] \in {"no_array", "invalid_json"}
    \/ /\ outcome["kind"] = "array"
       /\ \E k \in 1..Len(outcome["results"]) : ~outcome["results"][k]["object"]

\* C4 (as claimed): after an import whose classifier response cannot be
\* parsed (no JSON array, invalid JSON, or an entry that is not an object),
\* every cache-miss transaction of the batch is tagged ("500", low, not from
\* cache).
C4_UnparseableResponseFallsBack ==
    (lastOp["op"] = "upload_csv" /\ Unparseable(lastOp["outcome"])) =>
        \A i \in 1..Len(lastOp["batch"]) :
            ~IsHit(lastOp["batch"][i]) => Tagged(lastOp["batch"][i], "500", "low", FALSE)

\* ------------------------------------------------------------------------
\* Reporting: imports, reconciles, edits that set reconciled, category
\* creation and the aggregation query
\* ------------------------------------------------------------------------

CategoryBodies ==
    { [code |-> "500", name |-> "Other"],
      [code |-> "100", name |-> "Groceries", type |-> "fixed", category_type |-> "Expense"] }

AnalysisReconcileBodies ==
    { [transaction_id |-> i, category_code |-> c] : i \in StoredIds, c \in {"100", "500"} }

NextAnalysis ==
    \/ \E csv \in CSVs : UploadCsv(csv, {Raise})
    \/ \E data \in AnalysisReconcileBodies : ReconcileTransaction(data)
    \/ \E trans_id \in StoredIds : ApiTransaction(trans_id, [reconciled |-> TRUE])
    \/ \E data \in CategoryBodies : ApiCategoriesPost(data)
    \/ \E kind \in Kinds : ApiAnalysis(kind)

SpecAnalysis == Init /\ [][NextAnalysis]_vars

\* the stored transactions that an aggregation of this kind is about
Eligible(kind) ==
    {i \in 1..Len(transactions) :
        /\ transactions[i]["reconciled"]
        /\ (kind = "expenses" => transactions[i]["amount"] < 0)
        /\ (kind = "income" => transactions[i]["amount"] > 0)}

\* the stored transactions at the positions in S, in stored order
RECURSIVE AtPositions(_, _)
AtPositions(S, from) ==
    IF from > Len(transactions) THEN <<>>
    ELSE (IF from \in S THEN <<transactions[from]>> ELSE <<>>) \o AtPositions(S, from + 1)

RECURSIVE SumOfAbs(_)
SumOfAbs(S) ==
    IF S = {} THEN 0
    ELSE LET i == CHOOSE i \in S : TRUE
         IN  Abs(transactions[i]["amount"]) + SumOfAbs(S \ {i})

\* one group per category_code of the eligible transactions, each listing
\* exactly the eligible transactions with that code, with a total that
\* satisfies TotalOk(total, sum of their absolute amounts)
GroupsAre(result, kind, TotalOk(_, _)) ==
    LET codes == {transactions[i]["category_code"] : i \in Eligible(kind)}
    IN  /\ Len(result) = Cardinality(codes)
        /\ \A c \in codes :
              \E k \in 1..Len(result) :
                 LET members == {i \in Eligible(kind) : transactions[i]["category_code"] = c}
                 IN  /\ result[k]["code"] = c
                     /\ result[k]["transactions"] = AtPositions(members, 1)
                     /\ TotalOk(result[k]["total"], SumOfAbs(members))

ExactTotal(total, sum) == total = sum

\* the multiple of a hundredth nearest to the sum
RoundedTotal(total, sum) ==
    /\ total % 10 = 0
    /\ total - sum <= 5
    /\ sum - total <= 5

\* C9 (as claimed): the aggregate of each kind has exactly one group per
\* category_code of the reconciled transactions matching the kind, listing
\* exactly those transactions, with total = the sum of their absolute
\* amounts; unreconciled transactions appear nowhere.
C9_GroupsWithExactTotals ==
    lastOp["op"] = "api_analysis" => GroupsAre(lastOp["result"], lastOp["kind"], ExactTotal)

\* C9 (amended): as claimed, except that each total is the sum of the
\* absolute amounts rounded to two decimal places.
C9_GroupsWithRoundedTotals ==
    lastOp["op"] = "api_analysis" => GroupsAre(lastOp["result"], lastOp["kind"], RoundedTotal)

\* an expenses aggregate over a reconciled expense whose amount has a third
\* decimal, next to an unreconciled expense that it leaves out
C9_Witness ==
    /\ lastOp["op"] = "api_analysis"
    /\ lastOp["kind"] = "expenses"
    /\ Len(lastOp["result"]) = 1
    /\ lastOp["result"][1]["total"] = 750
    /\ Len(lastOp["result"][1]["transactions"]) = 1
    /\ \E i \in 1..Len(transactions) :
          ~transactions[i]["reconciled"] /\ transactions[i]["amount"] < 0

\* C10 (as claimed): in an aggregate, a reconciled transaction whose
\* category_code is null is listed in the group with code "500", there is no
\* group for the null code, and the "500" group carries the name of
\* category 500.
C10_NullCodeGoesToOther ==
    lastOp["op"] = "api_analysis" =>
        \A i \in Eligible(lastOp["kind"]) :
            transactions[i]["category_code"] = None =>
               /\ \A k \in 1..Len(lastOp["result"]) : lastOp["result"][k]["code"] # None
               /\ \E k \in 1..Len(lastOp["result"]) :
                     /\ lastOp["result"][k]["code"] = "500"
                     /\ \E m \in 1..Len(lastOp["result"][k]["transactions"]) :
                           lastOp["result"][k]["transactions"][m] = transactions[i]
                     /\ lastOp["result"][k]["name"] = CategoryFor(categories, "500")["name"]

\* ------------------------------------------------------------------------
\* Edits: imports whose classifier answers, and update-by-id requests with
\* every combination of fields the handler looks at
\* ------------------------------------------------------------------------

EditCSVs == {<<RowColes12>>, <<RowColesVic>>, <<RowUber>>}

EditRequestBodies ==
    { [note |-> "n"],
      [reconciled |-> TRUE],
      [category_code |-> "100"],
      [category_code |-> "200", update_cache |-> FALSE],
      [category_code |-> "200", update_cache |-> TRUE, note |-> "n"],
      [category_code |-> ""],
      [category_code |-> None] }

NextEdit ==
    \/ \E csv \in EditCSVs : UploadCsv(csv, {Array(<<Entry100>>)})
    \/ \E trans_id \in StoredIds \cup {UnknownId}, data \in EditRequestBodies :
          ApiTransaction(trans_id, data)

SpecEdit == Init /\ [][NextEdit]_vars

\* the fields of a transaction that an update-by-id request can set
EditableFields == {"category_code", "reconciled", "note"}

\* position of the first stored transaction with this id
FirstWithId(id) ==
    CHOOSE i \in 1..Len(transactions) :
        /\ transactions[i]["id"] = id
        /\ \A j \in 1..(i - 1) : transactions[j]["id"] # id

\* C11: update-by-id is a partial update.  On the addressed transaction it
\* sets exactly the fields among category_code, reconciled and note that the
\* request supplies, to the supplied values, and leaves every other field
\* (reconciled when it is not supplied, the ai_* fields, ...) as it was; no
\* other transaction changes; when the id matches no stored transaction the
\* transactions and the merchant cache are unchanged.
C11_PartialUpdate ==
    [][lastOp'["op"] = "api_transaction" =>
          LET id == lastOp'["trans_id"]
              data == lastOp'["data"]
              supplied == EditableFields \cap DOMAIN data
          IN  IF id \notin StoredIds
              THEN transactions' = transactions /\ merchant_cache' = merchant_cache
              ELSE /\ Len(transactions') = Len(transactions)
                   /\ \A j \in 1..Len(transactions) :
                         j # FirstWithId(id) => transactions'[j] = transactions[j]
                   /\ DOMAIN transactions'[FirstWithId(id)]
                         = (DOMAIN transactions[FirstWithId(id)]) \cup supplied
                   /\ \A f \in DOMAIN transactions'[FirstWithId(id)] :
                         transactions'[FirstWithId(id)][f]
                            = IF f \in supplied THEN data[f]
                              ELSE transactions[FirstWithId(id)][f]]_vars

\* a request that supplied only a category_code has been applied to a
\* transaction that carries ai_* fields and is still unreconciled, with
\* another transaction in the store
C11_Witness ==
    /\ lastOp["op"] = "api_transaction"
    /\ DOMAIN lastOp["data"] = {"category_code"}
    /\ Len(transactions) = 2
    /\ \E i \in 1..2 :
          /\ transactions[i]["id"] = lastOp["trans_id"]
          /\ transactions[i]["category_code"] = lastOp["data"]["category_code"]
          /\ ~transactions[i]["reconciled"]
          /\ "ai_suggested_code" \in DOMAIN transactions[i]

\* what an update-by-id of a stored transaction does to the merchant cache
\* when `learns` says whether it teaches
EditTeachesWhen(learns) ==
    LET id == lastOp'["trans_id"]
        c == lastOp'["data"]["category_code"]
        M == MerchantKey(transactions[FirstWithId(id)]["description"])
    IN  IF learns
        THEN /\ DOMAIN merchant_cache' = (DOMAIN merchant_cache) \cup {M}
             /\ merchant_cache'[M] = HighEntry(c, id)
             /\ \A k \in (DOMAIN merchant_cache) \ {M} : merchant_cache'[k] = merchant_cache[k]
        ELSE merchant_cache' = merchant_cache

\* the update_cache flag of the request is true or omitted
FlagOn(data) == "update_cache" \notin DOMAIN data \/ data["update_cache"] = TRUE

\* C12 (as claimed): an update-by-id of a stored transaction learns (merchant
\* key -> supplied code, high) if and only if a non-null category_code is
\* supplied and update_cache is true or omitted; otherwise the merchant
\* cache is unchanged.
C12_LearnsIffNonNullCode ==
    [][(lastOp'["op"] = "api_transaction" /\ lastOp'["trans_id"] \in StoredIds) =>
          EditTeachesWhen(/\ "category_code" \in DOMAIN lastOp'["data"]
                          /\ lastOp'["data"]["category_code"] # None
                          /\ FlagOn(lastOp'["data"]))]_vars

\* C12 (amended): as claimed, with "supplied" meaning a category_code that is
\* neither null nor the empty string.
C12_LearnsIffNonEmptyCode ==
    [][(lastOp'["op"] = "api_transaction" /\ lastOp'["trans_id"] \in StoredIds) =>
          EditTeachesWhen(/\ "category_code" \in DOMAIN lastOp'["data"]
                          /\ lastOp'["data"]["category_code"] \notin {None, ""}
                          /\ FlagOn(lastOp'["data"]))]_vars

\* an edit with update_cache = false has left alone the entry that an earlier
\* edit of the same transaction taught with another code
C12_Witness ==
    /\ lastOp["op"] = "api_transaction"
    /\ "update_cache" \in DOMAIN lastOp["data"]
    /\ lastOp["data"]["update_cache"] = FALSE
    /\ \E i \in 1..Len(transactions) :
          /\ transactions[i]["id"] = lastOp["trans_id"]
          /\ transactions[i]["category_code"] = "200"
          /\ MerchantKey(transactions[i]["description"]) \in DOMAIN merchant_cache
          /\ merchant_cache[MerchantKey(transactions[i]["description"])]
                = HighEntry("100", transactions[i]["id"])

\* ------------------------------------------------------------------------
\* Every mutating request: imports, edits, reconciles, clears and the
\* category requests
\* ------------------------------------------------------------------------

CacheCSVs == {<<RowColes12>>, <<RowUber>>}

NewCategoryBodies ==
    { [code |-> "500", name |-> "Other"],
      [code |-> "100", name |-> "Groceries", type |-> "fixed", category_type |-> "Expense"],
      [code |-> "100", name |-> "Food"] }

NextCache ==
    \/ \E csv \in CacheCSVs : UploadCsv(csv, {Array(<<Entry100>>)})
    \/ \E trans_id \in StoredIds : ApiTransaction(trans_id, [category_code |-> "100"])
    \/ \E trans_id \in StoredIds :
          ReconcileTransaction([transaction_id |-> trans_id, category_code |-> "200"])
    \/ ReconcileAll
    \/ ClearTransactions
    \/ ClearData
    \/ \E data \in NewCategoryBodies : ApiCategoriesPost(data)
    \/ \E code \in {"100", "999"} : ApiCategoryPut(code, [name |-> "Food"])
    \/ \E code \in {"100"} : ApiCategoryDelete(code)

SpecCache == Init /\ [][NextCache]_vars

\* C13: the merchant cache only grows.  No step other than clear-all-data
\* removes a key from the cache, and every entry that a step writes has
\* confidence high and, as its key, the lower-cased normalised merchant name
\* of the stored transaction it was learned from.
C13_CacheOnlyGrows ==
    [][/\ lastOp'["op"] # "clear_data" => (DOMAIN merchant_cache) \subseteq DOMAIN merchant_cache'
       /\ \A k \in DOMAIN merchant_cache' :
             (k \notin DOMAIN merchant_cache \/ merchant_cache'[k] # merchant_cache[k]) =>
                /\ merchant_cache'[k]["confidence"] = "high"
                /\ \E i \in 1..Len(transactions) :
                      /\ transactions[i]["id"] = merchant_cache'[k]["learned_from"]
                      /\ lower(extract_merchant_name(transactions[i]["description"])) = k]_vars

\* clear-transactions has emptied the store and the cache still holds the
\* entries of two merchants
C13_Witness ==
    /\ lastOp["op"] = "clear_transactions"
    /\ transactions = <<>>
    /\ Cardinality(DOMAIN merchant_cache) = 2

\* C14: category codes are unique.  A create request whose code is the code
\* of an existing category is answered with an error and leaves the
\* categories unchanged, and after every step no two categories share a code.
C14_CodesStayUnique ==
    [][/\ \A i \in 1..Len(categories'), j \in 1..Len(categories') :
             i # j => categories'[i]["code"] # categories'[j]["code"]
       /\ (/\ lastOp'["op"] = "api_categories"
           /\ \E i \in 1..Len(categories) : categories[i]["code"] = lastOp'["data"]["code"])
          => (lastOp'["status"] = 400 /\ categories' = categories)]_vars

\* a create request with the code of an existing category and another name
\* has been rejected, with two categories stored
C14_Witness ==
    /\ lastOp["op"] = "api_categories"
    /\ lastOp["status"] = 400
    /\ Len(categories) = 2
    /\ \E i \in 1..2 :
          /\ categories[i]["code"] = lastOp["data"]["code"]
          /\ categories[i]["name"] # lastOp["data"]["name"]

\* ------------------------------------------------------------------------
\* Further properties of the batch categoriser
\* ------------------------------------------------------------------------

\* C15 (as claimed): after an import, no transaction of the batch whose
\* suggestion came from the classifier (ai_from_cache = false) carries
\* ai_confidence = high, and every ai_confidence that is set is one of high,
\* medium, low.
C15_HighOnlyFromCache ==
    lastOp["op"] = "upload_csv" =>
        \A i \in 1..Len(lastOp["batch"]) :
            "ai_confidence" \in DOMAIN lastOp["batch"][i] =>
               /\ lastOp["batch"][i]["ai_confidence"] \in {"high", "medium", "low"}
               /\ lastOp["batch"][i]["ai_from_cache"] = FALSE
                     => lastOp["batch"][i]["ai_confidence"] # "high"

\* the entries of a response whose echoed ordinal is p
EntriesFor(results, p) ==
    {k \in 1..Len(results) :
        "id" \in DOMAIN results[k]["fields"] /\ results[k]["fields"]["id"] = p}

\* C16 (as claimed): after an import whose classifier response is a list of
\* objects, the p-th cache-miss transaction of the batch carries the code of
\* an entry whose echoed ordinal is p, wherever that entry sits in the list,
\* and has no ai_* fields when no entry echoes p; entries with a missing or
\* out-of-range ordinal change nothing.
C16_EntriesApplyByOrdinal ==
    (/\ lastOp["op"] = "upload_csv"
     /\ lastOp["outcome"]["kind"] = "array"
     /\ \A k \in 1..Len(lastOp["outcome"]["results"]) : lastOp["outcome"]["results"][k]["object"])
    =>
    \A p \in 1..Len(UncachedFrom(lastOp["batch"], merchant_cache, 1)) :
        LET t == lastOp["batch"][UncachedFrom(lastOp["batch"], merchant_cache, 1)[p]]
            results == lastOp["outcome"]["results"]
        IN  IF EntriesFor(results, p) = {}
            THEN DOMAIN t \cap {"ai_suggested_code", "ai_confidence", "ai_from_cache"} = {}
            ELSE /\ "ai_suggested_code" \in DOMAIN t
                 /\ \E k \in EntriesFor(results, p) :
                       t["ai_suggested_code"] = Get(results[k]["fields"], "category_code", "500")

\* ------------------------------------------------------------------------
\* Ordering of the aggregate: imports of amounts that tie, before and after
\* rounding, reconciles and the aggregation query
\* ------------------------------------------------------------------------

\* 0.754, on an earlier day than RowColesVic: the same total once rounded
RowUberRefund == <<(<<15, 1, 2024>>), Num(754), DescUber>>

\* 0.752, on an earlier day than RowColesVic: the same sum
RowUberCredit == <<(<<14, 1, 2024>>), Num(752), DescUber>>

OrderingCSVs ==
    SeqsUpTo({RowColesVic, RowUberRefund, RowUberCredit, RowColes12}, MaxRows)

NextOrdering ==
    \/ \E csv \in OrderingCSVs : UploadCsv(csv, {Raise})
    \/ \E data \in AnalysisReconcileBodies : ReconcileTransaction(data)
    \/ \E kind \in Kinds : ApiAnalysis(kind)

SpecOrdering == Init /\ [][NextOrdering]_vars

\* the eligible stored transactions of the k-th group of a result
MembersOf(result, kind, k) ==
    {i \in Eligible(kind) : transactions[i]["category_code"] = result[k]["code"]}

\* stored position at which the code of the k-th group is first seen
FirstSeen(result, kind, k) ==
    CHOOSE i \in MembersOf(result, kind, k) : \A j \in MembersOf(result, kind, k) : i <= j

\* groups come in non-increasing order of Key, and groups with equal Key in
\* the order in which their codes are first seen in the store
OrderedBy(result, kind, Key(_)) ==
    \A k \in 1..Len(result), m \in 1..Len(result) :
        k < m =>
           /\ Key(k) >= Key(m)
           /\ Key(k) = Key(m) => FirstSeen(result, kind, k) < FirstSeen(result, kind, m)

C19_IdsAreUnique ==
    \A i \in 1..Len(transactions), j \in 1..Len(transactions) :
        i # j => transactions[i]["id"] # transactions[j]["id"]

\* C20 (as claimed): every reconciled transaction has a category.  In every
\* reachable state a stored transaction with reconciled = true has a
\* category_code that is not null.
C20_ReconciledHasCategory ==
    \A i \in 1..Len(transactions) :
        transactions[i]["reconciled"] = TRUE => transactions[i]["category_code"] # None

\* ------------------------------------------------------------------------
\* Requests that overlap: each handler loads the transactions, works on its
\* copy and saves the copy, and another thread can run between the load and
\* the save
\* ------------------------------------------------------------------------

\* thread th is now in request r
Serving(th, r) == [t \in Threads |-> IF t = th THEN r ELSE inflight[t]]

\* the ids of the transactions of `before` that `after` no longer holds, or
\* holds unreconciled where they were reconciled
Lost(before, after) ==
    {before[i]["id"] :
        i \in {k \in 1..Len(before) :
                 \A j \in 1..Len(after) :
                    \/ after[j]["id"] # before[k]["id"]
                    \/ (before[k]["reconciled"] /\ ~after[j]["reconciled"])}}

\* upload_csv up to the classifier call: the loads and the row loop.  A CSV
\* with nothing new returns without saving.
UploadBegin(th, csv) ==
    /\ inflight[th] = Idle
    /\ ~CsvRaises(csv)
    /\ Len(transactions) + Len(Adds(csv)) <= MaxTx
    /\ inflight' = IF Adds(csv) = <<>> THEN inflight
                   ELSE Serving(th, [pc |-> "classify", txs |-> transactions, new |-> Adds(csv)])
    /\ lastOp' = [op |-> "upload_begin", thread |-> th, rows |-> Len(csv)]
    /\ UNCHANGED <<transactions, merchant_cache, categories, taught>>

\* upload_csv from the classifier's answer on: tag, extend the copy, sort, save
UploadFinish(th, outcome) ==
    /\ inflight[th]["pc"] = "classify"
    /\ \E r \in {Imported(inflight[th]["txs"],
                          categorize_transactions_batch(inflight[th]["new"], categories,
                                                        merchant_cache, outcome))} :
          /\ transactions' = r["transactions"]
          /\ lastOp' = [op |-> "upload_finish", thread |-> th,
                        lost |-> Lost(transactions, r["transactions"])]
    /\ inflight' = Serving(th, Idle)
    /\ UNCHANGED <<merchant_cache, categories, taught>>

\* reconcile_transaction up to its load of the transactions
ReconcileBegin(th, data) ==
    /\ inflight[th] = Idle
    /\ ~ReconcileRejected(data)
    /\ inflight' = Serving(th, [pc |-> "reconcile", txs |-> transactions, data |-> data])
    /\ lastOp' = [op |-> "reconcile_begin", thread |-> th, data |-> data]
    /\ UNCHANGED <<transactions, merchant_cache, categories, taught>>

\* reconcile_transaction from its loop on: change the copy, learn, save
ReconcileFinish(th) ==
    /\ inflight[th]["pc"] = "reconcile"
    /\ \E r \in {reconcile_transaction(inflight[th]["txs"], merchant_cache, inflight[th]["data"])},
          i \in {FindFirst(inflight[th]["txs"], inflight[th]["data"]["transaction_id"])} :
          /\ transactions' = r["transactions"]
          /\ merchant_cache' = r["merchant_cache"]
          /\ lastOp' = [op |-> "reconcile_finish", thread |-> th,
                        lost |-> Lost(transactions, r["transactions"])]
          /\ taught' = IF i # 0
                       THEN Put(taught, KeyOf(inflight[th]["txs"][i]["description"]),
                                inflight[th]["data"]["category_code"])
                       ELSE taught
    /\ inflight' = Serving(th, Idle)
    /\ UNCHANGED categories

RaceCSVs == {<<RowColes12>>, <<RowUber>>, <<RowColes12, RowUber>>}

NextRace ==
    \/ \E th \in Threads, csv \in RaceCSVs : UploadBegin(th, csv)
    \/ \E th \in Threads : UploadFinish(th, Raise)
    \/ \E th \in Threads, trans_id \in StoredIds :
          ReconcileBegin(th, [transaction_id |-> trans_id, category_code |-> "200"])
    \/ \E th \in Threads : ReconcileFinish(th)

SpecRace == Init /\ [][NextRace]_vars

\* C18: lost update.  A request that saves a copy of the transactions that
\* is still what the store holds (nothing was saved since it loaded, as when
\* requests run one after another) loses nothing: every transaction stored
\* before its save is stored after it, and reconciled if it was reconciled.
\* When another request saved in between, the witness shows the change that
\* was saved first missing from the store.
C18_NoLossWithoutInterleaving ==
    [][\A th \in Threads :
          (/\ inflight[th]["pc"] # "idle"
           /\ inflight'[th]["pc"] = "idle"
           /\ inflight[th]["txs"] = transactions)
          => Lost(transactions, transactions') = {}]_vars

\* an import that waited on the classifier has saved its copy over a
\* reconcile that was saved meanwhile: the transaction is stored unreconciled
\* while the merchant cache holds what the reconcile learned from it
C18_Witness ==
    /\ lastOp["op"] = "upload_finish"
    /\ lastOp["lost"] # {}
    /\ \E i \in 1..Len(transactions) :
          /\ transactions[i]["id"] \in lastOp["lost"]
          /\ ~transactions[i]["reconciled"]
          /\ \E k \in DOMAIN merchant_cache :
                merchant_cache[k]["learned_from"] = transactions[i]["id"]

====
